---- MODULE Spec2Model ----
(***************************************************************************)
(* cesty: discovery of test functions in a C file and synthesis of the     *)
(* three textual views (full / mainless / templated).                      *)
(*                                                                         *)
(* Modelled from src/src/test/extract.rs (visitor::visit and the filter    *)
(* callback handed to clang_visitChildren) and src/src/test/mod.rs.        *)
(*                                                                         *)
(* libclang is an external collaborator.  What it hands to the callback is *)
(* modelled by the file description `file`: the top-level declarations in  *)
(* source order, each with its spelling, its kind, the outcome that the    *)
(* comment/config pipeline has on the raw comment above it, and the byte   *)
(* offsets / line / column that libclang reports for it.  The bytes of the *)
(* file are kept abstract: the byte at offset o is the value o + 1, so     *)
(* that every byte is distinguishable and 0 can stand for the `;` that the *)
(* synthesiser inserts.                                                    *)
(***************************************************************************)
EXTENDS Integers, Sequences, FiniteSets, TLC

(***************************************************************************)
(* Bounds of the model.                                                    *)
(***************************************************************************)
\* largest number of top-level declarations in a file
MaxFuncs == 3
\* bytes of a function body, `{` and `}` included
BodyLen == 3
\* bytes between two declarations (white space, comments) and at both
\* ends of the file
GapLen == 1
\* bytes of a declaration in front of its name (return type and blank)
RetLen == 1

(***************************************************************************)
(* Names.  A spelling is a sequence of characters.                         *)
(***************************************************************************)
\* src/src/defaults.rs:33
DEFAULT_FUNCTION_PREFIX == <<"c", "e", "s", "t", "y", "_">>

MainName == <<"m", "a", "i", "n">>

IsWhitespace(c) == c \in {" ", "\t", "\n"}

RECURSIVE TrimStart(_)
TrimStart(s) ==
    IF s # <<>> /\ IsWhitespace(Head(s)) THEN TrimStart(Tail(s)) ELSE s

RECURSIVE TrimEnd(_)
TrimEnd(s) ==
    IF s # <<>> /\ IsWhitespace(s[Len(s)])
    THEN TrimEnd(SubSeq(s, 1, Len(s) - 1))
    ELSE s

\* str::trim
Trim(s) == TrimEnd(TrimStart(s))

\* str::starts_with
StartsWith(s, p) == Len(s) >= Len(p) /\ SubSeq(s, 1, Len(p)) = p

\* s[n..]
SliceFrom(s, n) == SubSeq(s, n + 1, Len(s))

\* Option<T>
None == <<>>
Some(x) == <<x>>
IsSome(o) == o # <<>>
Unwrap(o) == o[1]

(***************************************************************************)
(* The file under analysis.                                                *)
(***************************************************************************)
\* Outcome of the comment/config pipeline on the raw comment of a function:
\*   none       no documentation comment      (Ok(None))
\*   ok         well-formed comment and TOML  (Ok(Some), Config Ok)
\*   badslice   config_string_from_cursor returns Err
\*   badconfig  Config::from_comment_lines returns Err
CommentKinds == {"none", "ok", "badslice", "badconfig"}

Decl(k, n, c) == [kind |-> k, name |-> n, comment |-> c]

\* function definitions of the file itself
DefDecls ==
    {Decl("def", n, c) :
        n \in {MainName, DEFAULT_FUNCTION_PREFIX \o <<"a">>},
        c \in CommentKinds}
    \cup {Decl("def", DEFAULT_FUNCTION_PREFIX, c) : c \in {"none", "badslice"}}
    \cup {Decl("def", <<"f">>, c) : c \in {"none", "badconfig"}}
    \cup {Decl("def", MainName \o <<"_">>, "none")}

\* prototypes (no body), a declaration that is not a function, and a
\* function definition that comes from an included file
OtherDecls ==
    {Decl("proto", n, "none") :
        n \in {MainName, DEFAULT_FUNCTION_PREFIX \o <<"a">>}}
    \cup {Decl("var", <<"v">>, "none")}
    \cup {Decl("included", DEFAULT_FUNCTION_PREFIX \o <<"a">>, "ok")}

Decls == DefDecls \cup OtherDecls

\* sep = "nl": every declaration stands on a line of its own, below the
\*             line of its comment;  sep = "sp": the whole file is one line
\* readable:   whether std::fs::read_to_string succeeds on the file
Files ==
    {[decls |-> ds, sep |-> s, readable |-> r] :
        ds \in UNION {[1..n -> Decls] : n \in 0..MaxFuncs},
        s \in {"nl", "sp"},
        r \in BOOLEAN}

\* clang_Location_isFromMainFile
IsFromMainFile(d) == d.kind # "included"

\* bytes from the start of the declaration to its body (or to its end)
HeadLen(d) == RetLen + Len(d.name) + 2

\* bytes the declaration occupies in the file, with the gap in front of it
Extent(d) ==
    IF d.kind = "included" THEN 0
    ELSE GapLen + HeadLen(d) + (IF d.kind = "def" THEN BodyLen ELSE 0)

RECURSIVE SumExtent(_, _)
SumExtent(ds, n) == IF n = 0 THEN 0 ELSE SumExtent(ds, n - 1) + Extent(ds[n])

FileLen(f) == SumExtent(f.decls, Len(f.decls)) + GapLen

\* std::fs::read_to_string(path): the byte at offset o is o + 1
file_contents(f) == [k \in 1..FileLen(f) |-> k]

\* the character that replaces a function body
Semicolon == 0

\* rustclang::range_from_cursor_extent of the function declaration: start
FuncStart(f, i) == SumExtent(f.decls, i - 1) + GapLen

\* rustclang::range_from_cursor_extent of the compound statement
body_range(f, i) ==
    LET s == FuncStart(f, i) + HeadLen(f.decls[i])
    IN  <<s, s + BodyLen>>

template_range(f, i) == <<FuncStart(f, i), body_range(f, i)[1] - 1>>

\* number of declarations of the file itself among the first i
RECURSIVE Rank(_, _)
Rank(f, i) ==
    IF i = 0 THEN 0
    ELSE Rank(f, i - 1) + (IF IsFromMainFile(f.decls[i]) THEN 1 ELSE 0)

\* rustclang::position_from_cursor_location of the function declaration
\* (the position of its name): <<line, column>>
position_from_cursor_location(f, i) ==
    IF f.sep = "nl"
    THEN <<2 * Rank(f, i), RetLen + 1>>
    ELSE <<1, FuncStart(f, i) + RetLen + 1>>

\* rustclang::position_from_cursor_extent(..).0.0: line of the start
position_from_cursor_extent(f, i) == position_from_cursor_location(f, i)[1]

(***************************************************************************)
(* Alerts.                                                                 *)
(***************************************************************************)
\* the Warning of valid_function_name_from_cursor
PrefixOnlyWarning(f, i) ==
    [kind |-> "Warning",
     description |-> "function only contains prefix part",
     line |-> position_from_cursor_location(f, i)[1],
     relative_line |-> position_from_cursor_extent(f, i) - 1,
     column |-> position_from_cursor_location(f, i)[2]
                    + Len(Trim(f.decls[i].name)),
     note |-> "due to having no name the test will be ignored"]

\* the Error of CommentVariant::comment_slices_from_cursor
CommentError(f, i) ==
    [kind |-> "Error",
     description |-> "comment slicing failed",
     line |-> position_from_cursor_extent(f, i),
     column |-> position_from_cursor_location(f, i)[2]]

\* the Error of Config::from_comment_lines; the failing line is a line of
\* the comment, which ends on the line above the function
ConfigError(f, i) ==
    [kind |-> "Error",
     description |-> "failed to parse TOML from comment into a Config type.",
     line |-> IF f.sep = "nl"
              THEN position_from_cursor_location(f, i)[1] - 1
              ELSE 1,
     column |-> FuncStart(f, i)]

\* variant: the annotation repeats the position of the second main
MultipleMainError_SamePosition(main_line, main_column, old_main_line, old_main_column) ==
    [kind |-> "Error",
     description |-> "file contains multiple main() functions",
     line |-> main_line,
     column |-> main_column,
     old_line |-> main_line,
     old_column |-> main_column]

\* the Error for a second main(): the evidence is the line of the second
\* main, annotated with the position recorded for the first one
MultipleMainError(main_line, main_column, old_main_line, old_main_column) ==
    [kind |-> "Error",
     description |-> "file contains multiple main() functions",
     line |-> main_line,
     column |-> main_column,
     old_line |-> old_main_line,
     old_column |-> old_main_column]

\* the Error for a second main() when the file cannot be read for the
\* evidence
MultipleMainNoEvidence ==
    [kind |-> "Error",
     description |-> "file contains multiple main() functions, no evidence"]

\* the Error of visit when the file cannot be read for the views
ReadError ==
    [kind |-> "Error",
     description |-> "failed to extract file contents"]

(***************************************************************************)
(* visitor::valid_function_name_from_cursor                                *)
(***************************************************************************)
\* variant: the bare prefix is skipped without a Warning
valid_function_name_from_cursor_NoWarning(f, i) ==
    LET function_name == Trim(f.decls[i].name)
    IN  IF StartsWith(function_name, DEFAULT_FUNCTION_PREFIX)
        THEN LET test_name_part ==
                     SliceFrom(function_name, Len(DEFAULT_FUNCTION_PREFIX))
             IN  IF test_name_part = <<>>
                 THEN [result |-> None, warnings |-> <<>>]
                 ELSE [result |-> Some(<<function_name, test_name_part>>),
                       warnings |-> <<>>]
        ELSE [result |-> None, warnings |-> <<>>]

\* variant: the suffix is not tested for emptiness
valid_function_name_from_cursor_NoEmptyTest(f, i) ==
    LET function_name == Trim(f.decls[i].name)
    IN  IF StartsWith(function_name, DEFAULT_FUNCTION_PREFIX)
        THEN [result |-> Some(<<function_name,
                                SliceFrom(function_name,
                                          Len(DEFAULT_FUNCTION_PREFIX))>>),
              warnings |-> <<>>]
        ELSE [result |-> None, warnings |-> <<>>]

valid_function_name_from_cursor(f, i) ==
    LET function_name == Trim(f.decls[i].name)
    IN  IF StartsWith(function_name, DEFAULT_FUNCTION_PREFIX)
        THEN LET test_name_part ==
                     SliceFrom(function_name, Len(DEFAULT_FUNCTION_PREFIX))
             IN  IF test_name_part = <<>>
                 THEN [result |-> None,
                       warnings |-> <<PrefixOnlyWarning(f, i)>>]
                 ELSE [result |-> Some(<<function_name, test_name_part>>),
                       warnings |-> <<>>]
        ELSE [result |-> None, warnings |-> <<>>]

\* Config::default() or the deserialised comment
ConfigOf(d) == IF d.comment = "none" THEN "default" ELSE "parsed"

\* variant: main is treated like any other function
CleanEntry_NeverMain(function_name, template, body) ==
    <<body[1], body[2], FALSE>>

\* variant: the `is main` flag is inverted
CleanEntry_FlagInverted(function_name, template, body) ==
    IF function_name = MainName
    THEN <<template[1], body[2], FALSE>>
    ELSE <<body[1], body[2], TRUE>>

\* variant: every range but the entry point's starts at the top of the file
CleanEntry_FromFileStart(function_name, template, body) ==
    IF function_name = MainName
    THEN <<template[1], body[2], TRUE>>
    ELSE <<0, body[2], FALSE>>

\* what filter pushes on CLEAN_STACK for a function body: (start, end,
\* is main)
CleanEntry(function_name, template, body) ==
    IF function_name = MainName
    THEN <<template[1], body[2], TRUE>>
    ELSE <<body[1], body[2], FALSE>>

(***************************************************************************)
(* String::replace_range(a..b, r), offsets counted from 0                  *)
(***************************************************************************)
replace_range(s, a, b, r) == SubSeq(s, 1, a) \o r \o SubSeq(s, b + 1, Len(s))

\* Environment::default()
DefaultEnvironment == [full |-> <<>>, mainless |-> <<>>, templated |-> <<>>]

\* variant: the range recorded first is not applied
RECURSIVE ApplyRev_SkipsFirst(_, _)
ApplyRev_SkipsFirst(text, clean) ==
    IF Len(clean) <= 1 THEN text
    ELSE LET c == clean[Len(clean)]
         IN  ApplyRev_SkipsFirst(replace_range(text, c[1], c[2],
                                    IF c[3] THEN <<>> ELSE <<Semicolon>>),
                                 SubSeq(clean, 1, Len(clean) - 1))

\* for cleanup in clean.iter().rev() { cleaned_up.replace_range(..) }
RECURSIVE ApplyRev(_, _)
ApplyRev(text, clean) ==
    IF clean = <<>> THEN text
    ELSE LET c == clean[Len(clean)]
         IN  ApplyRev(replace_range(text, c[1], c[2],
                                    IF c[3] THEN <<>> ELSE <<Semicolon>>),
                      SubSeq(clean, 1, Len(clean) - 1))

Mainless(text, main) ==
    IF IsSome(main)
    THEN replace_range(text, Unwrap(main)[1].range.template[1],
                       Unwrap(main)[1].range.body[2], <<>>)
    ELSE text

(***************************************************************************)
(* State.                                                                  *)
(***************************************************************************)
VARIABLES
    file,         \* the file handed to visit (never changes)
    pc,           \* "start", "walk" (inside clang_visitChildren),
                  \* "walked" (clang_visitChildren returned), "done"
    idx,          \* the declaration the traversal stands at
    phase,        \* "decl": its cursor is next; "body": its child is next
    TEST_STACK, CLEAN_STACK, WARNINGS, MAIN, ERROR,   \* the thread locals
    result,       \* what visit returned
    \* the comment of one function on its way to a Config
    raw,          \* clang_Cursor_getRawCommentText: None when it is NULL
    cpc,          \* "slice", "text", "parse", "done"; "idle" when unused
    comment,      \* the text comment_slices_from_cursor has not consumed
    comment_slices,   \* the slices it has pushed
    comment_lines,    \* what config_string_from_cursor returned
    toml,         \* what toml::from_str returned
    parsed,       \* what Config::from_comment_lines returned
    \* the configuration of one function
    document,     \* the table toml::from_str read from the comment, None
                  \* without a comment
    config,       \* the Config of the ParsedTest
    \* the threads that call visit
    visits,       \* the calls of visit the running thread has made
    parked        \* the thread that does not run: its thread locals, its
                  \* call of visit and the calls it has made

visitVars == <<file, pc, idx, phase, TEST_STACK, CLEAN_STACK, WARNINGS, MAIN,
               ERROR, result>>

commentVars == <<raw, cpc, comment, comment_slices, comment_lines, toml,
                 parsed>>

configVars == <<document, config>>

threadVars == <<visits, parked>>

\* what the visitor leaves alone
restVars == <<commentVars, configVars, threadVars>>

\* what the work on a comment leaves alone
notCommentVars == <<visitVars, configVars, threadVars>>

\* what the reading of a configuration leaves alone
notConfigVars == <<visitVars, commentVars, threadVars>>

vars == <<visitVars, restVars>>

accumulators == <<TEST_STACK, CLEAN_STACK, WARNINGS, MAIN, ERROR>>

Pending == [status |-> "pending"]

\* one thread, before its first call of visit
ThreadIdle ==
    /\ visits = 0
    /\ parked = None

\* no configuration is being read
ConfigIdle ==
    /\ document = None
    /\ config = Pending

\* no comment is being worked on
CommentIdle ==
    /\ raw = None
    /\ cpc = "idle"
    /\ comment = <<>>
    /\ comment_slices = <<>>
    /\ comment_lines = Pending
    /\ toml = Pending
    /\ parsed = Pending

\* no file is being visited
VisitIdle ==
    /\ file = [decls |-> <<>>, sep |-> "nl", readable |-> TRUE]
    /\ pc = "idle"
    /\ idx = 1
    /\ phase = "decl"
    /\ TEST_STACK = <<>>
    /\ CLEAN_STACK = <<>>
    /\ WARNINGS = <<>>
    /\ MAIN = None
    /\ ERROR = None
    /\ result = Pending

Init ==
    /\ file \in Files
    /\ pc = "start"
    /\ idx = 1
    /\ phase = "decl"
    /\ TEST_STACK = <<>>
    /\ CLEAN_STACK = <<>>
    /\ WARNINGS = <<>>
    /\ MAIN = None
    /\ ERROR = None
    /\ result = Pending
    /\ CommentIdle
    /\ ConfigIdle
    /\ ThreadIdle

\* variant: visit keeps the Error the call before has left
VisitBegin_ErrorKept ==
    /\ pc = "start"
    /\ TEST_STACK' = <<>>
    /\ CLEAN_STACK' = <<>>
    /\ WARNINGS' = <<>>
    /\ MAIN' = None
    /\ pc' = IF Len(file.decls) = 0 THEN "walked" ELSE "walk"
    /\ UNCHANGED <<file, idx, phase, result, ERROR, restVars>>

\* the first five statements of visit
VisitBegin ==
    /\ pc = "start"
    /\ TEST_STACK' = <<>>
    /\ CLEAN_STACK' = <<>>
    /\ WARNINGS' = <<>>
    /\ MAIN' = None
    /\ ERROR' = None
    /\ pc' = IF Len(file.decls) = 0 THEN "walked" ELSE "walk"
    /\ UNCHANGED <<file, idx, phase, result, restVars>>

\* CXChildVisit_Continue on the cursor of declaration idx or on a child of
\* it: the traversal goes to the next sibling
Continue ==
    /\ idx' = idx + 1
    /\ phase' = "decl"
    /\ pc' = IF idx = Len(file.decls) THEN "walked" ELSE "walk"

\* variant: the traversal goes on after an Error
Break_GoesOn ==
    /\ idx' = idx + 1
    /\ phase' = "decl"
    /\ pc' = IF idx = Len(file.decls) THEN "walked" ELSE "walk"

\* CXChildVisit_Break
Break ==
    /\ pc' = "walked"
    /\ UNCHANGED <<idx, phase>>

\* filter on the cursor of a top-level declaration
FilterDecl ==
    /\ pc = "walk"
    /\ phase = "decl"
    /\ LET d == file.decls[idx]
       IN  IF ~IsFromMainFile(d)
           THEN Continue
           ELSE IF d.kind \in {"def", "proto"}
                THEN \* CXChildVisit_Recurse: a prototype has no compound
                     \* statement below it
                     IF d.kind = "def"
                     THEN /\ phase' = "body"
                          /\ UNCHANGED <<idx, pc>>
                     ELSE Continue
                ELSE Continue
    /\ UNCHANGED <<file, accumulators, result, restVars>>

\* variant: the comment is read before the name is examined
FilterBody_CommentFirst ==
    /\ pc = "walk"
    /\ phase = "body"
    /\ LET d == file.decls[idx]
           function_name == Trim(d.name)
           body == body_range(file, idx)
           template == template_range(file, idx)
           valid == valid_function_name_from_cursor(file, idx)
           names == IF IsSome(valid.result)
                    THEN Unwrap(valid.result)
                    ELSE <<function_name, <<>>>>
           test == [config |-> ConfigOf(d),
                    function |-> [name |-> names[1], name_slice |-> names[2]],
                    range |-> [body |-> body, template |-> template]]
           pos == position_from_cursor_location(file, idx)
       IN  /\ CLEAN_STACK' =
                  Append(CLEAN_STACK,
                         CleanEntry(function_name, template, body))
           /\ WARNINGS' = WARNINGS \o valid.warnings
           /\ IF d.comment = "badslice"
              THEN /\ ERROR' = Some(CommentError(file, idx))
                   /\ Break
                   /\ UNCHANGED <<TEST_STACK, MAIN>>
              ELSE IF d.comment = "badconfig"
              THEN /\ ERROR' = Some(ConfigError(file, idx))
                   /\ Break
                   /\ UNCHANGED <<TEST_STACK, MAIN>>
              ELSE IF ~IsSome(valid.result) /\ function_name # MainName
              THEN /\ Continue
                   /\ UNCHANGED <<TEST_STACK, MAIN, ERROR>>
              ELSE IF test.function.name = MainName
              THEN IF IsSome(MAIN)
                   THEN /\ ERROR' =
                               IF file.readable
                               THEN Some(MultipleMainError(
                                         pos[1], pos[2],
                                         Unwrap(MAIN)[2], Unwrap(MAIN)[3]))
                               ELSE Some(MultipleMainNoEvidence)
                        /\ Break
                        /\ UNCHANGED <<TEST_STACK, MAIN>>
                   ELSE /\ MAIN' = Some(<<test, pos[1], pos[2]>>)
                        /\ Continue
                        /\ UNCHANGED <<TEST_STACK, ERROR>>
              ELSE /\ TEST_STACK' = Append(TEST_STACK, test)
                   /\ Continue
                   /\ UNCHANGED <<MAIN, ERROR>>
    /\ UNCHANGED <<file, result, restVars>>

\* filter on the compound statement whose semantic parent is a function
\* declaration
FilterBody ==
    /\ pc = "walk"
    /\ phase = "body"
    /\ LET d == file.decls[idx]
           function_name == Trim(d.name)
           body == body_range(file, idx)
           template == template_range(file, idx)
           valid == valid_function_name_from_cursor(file, idx)
           names == IF IsSome(valid.result)
                    THEN Unwrap(valid.result)
                    ELSE <<function_name, <<>>>>
           test == [config |-> ConfigOf(d),
                    function |-> [name |-> names[1], name_slice |-> names[2]],
                    range |-> [body |-> body, template |-> template]]
           pos == position_from_cursor_location(file, idx)
       IN  /\ CLEAN_STACK' =
                  Append(CLEAN_STACK,
                         CleanEntry(function_name, template, body))
           /\ WARNINGS' = WARNINGS \o valid.warnings
           /\ IF ~IsSome(valid.result) /\ function_name # MainName
              THEN /\ Continue
                   /\ UNCHANGED <<TEST_STACK, MAIN, ERROR>>
              ELSE IF d.comment = "badslice"
              THEN /\ ERROR' = Some(CommentError(file, idx))
                   /\ Break
                   /\ UNCHANGED <<TEST_STACK, MAIN>>
              ELSE IF d.comment = "badconfig"
              THEN /\ ERROR' = Some(ConfigError(file, idx))
                   /\ Break
                   /\ UNCHANGED <<TEST_STACK, MAIN>>
              ELSE IF test.function.name = MainName
              THEN IF IsSome(MAIN)
                   THEN /\ ERROR' =
                               IF file.readable
                               THEN Some(MultipleMainError(
                                         pos[1], pos[2],
                                         Unwrap(MAIN)[2], Unwrap(MAIN)[3]))
                               ELSE Some(MultipleMainNoEvidence)
                        /\ Break
                        /\ UNCHANGED <<TEST_STACK, MAIN>>
                   ELSE /\ MAIN' = Some(<<test, pos[1], pos[2]>>)
                        /\ Continue
                        /\ UNCHANGED <<TEST_STACK, ERROR>>
              ELSE /\ TEST_STACK' = Append(TEST_STACK, test)
                   /\ Continue
                   /\ UNCHANGED <<MAIN, ERROR>>
    /\ UNCHANGED <<file, result, restVars>>

\* variant: the views are synthesised also when no test was found
VisitReturn_NoShortcut(f, error, clean, warnings, tests, main) ==
    IF IsSome(error)
    THEN [status |-> "Err", alert |-> Unwrap(error)]
    ELSE IF ~f.readable
    THEN [status |-> "Err", alert |-> ReadError]
    ELSE [status |-> "Ok",
          tests |-> tests,
          main |-> IF IsSome(main) THEN Some(Unwrap(main)[1]) ELSE None,
          environment |->
              [full |-> file_contents(f),
               mainless |-> Mainless(file_contents(f), main),
               templated |-> ApplyRev(file_contents(f), clean)],
          warnings |-> warnings]

\* what visit returns once clang_visitChildren has returned
VisitReturn(f, error, clean, warnings, tests, main) ==
    IF IsSome(error)
    THEN [status |-> "Err", alert |-> Unwrap(error)]
    ELSE IF tests = <<>>
    THEN [status |-> "Ok", tests |-> <<>>, main |-> None,
          environment |-> DefaultEnvironment, warnings |-> warnings]
    ELSE IF ~f.readable
    THEN [status |-> "Err", alert |-> ReadError]
    ELSE [status |-> "Ok",
          tests |-> tests,
          main |-> IF IsSome(main) THEN Some(Unwrap(main)[1]) ELSE None,
          environment |->
              [full |-> file_contents(f),
               mainless |-> Mainless(file_contents(f), main),
               templated |-> ApplyRev(file_contents(f), clean)],
          warnings |-> warnings]

\* visit after clang_visitChildren has returned
VisitEnd ==
    /\ pc = "walked"
    /\ result' = VisitReturn(file, ERROR, CLEAN_STACK, WARNINGS, TEST_STACK,
                             MAIN)
    /\ pc' = "done"
    /\ UNCHANGED <<file, idx, phase, accumulators, restVars>>

Next == VisitBegin \/ FilterDecl \/ FilterBody \/ VisitEnd

Spec == Init /\ [][Next]_vars

(***************************************************************************)
(* Vocabulary of the properties: the classification of the declarations    *)
(* of the file, stated on the file description alone.                      *)
(***************************************************************************)
DeclIdx == DOMAIN file.decls
NameOf(i) == file.decls[i].name

\* a function definition (with a body) located in the file under analysis
IsDef(i) == file.decls[i].kind = "def"
IsMainDef(i) == IsDef(i) /\ NameOf(i) = MainName
IsPrefixed(i) ==
    /\ Len(NameOf(i)) >= Len(DEFAULT_FUNCTION_PREFIX)
    /\ \A k \in 1..Len(DEFAULT_FUNCTION_PREFIX) :
           NameOf(i)[k] = DEFAULT_FUNCTION_PREFIX[k]
IsTestDef(i) ==
    IsDef(i) /\ IsPrefixed(i) /\ Len(NameOf(i)) > Len(DEFAULT_FUNCTION_PREFIX)
IsPrefixOnlyDef(i) == IsDef(i) /\ NameOf(i) = DEFAULT_FUNCTION_PREFIX
IsOtherDef(i) == IsDef(i) /\ ~IsPrefixed(i) /\ NameOf(i) # MainName
Qualifies(i) == IsMainDef(i) \/ IsTestDef(i)

\* the comment above a qualifying function fails slicing or parsing
BadComment(i) ==
    Qualifies(i) /\ file.decls[i].comment \in {"badslice", "badconfig"}

Min(S) == CHOOSE x \in S : \A y \in S : x <= y

MainDefs == {i \in DeclIdx : IsMainDef(i)}
FirstMain == Min(MainDefs)
SecondMain == Min(MainDefs \ {FirstMain})

\* the functions whose processing produces an Error
ErrIdx ==
    {i \in DeclIdx :
        BadComment(i) \/ (IsMainDef(i) /\ \E j \in 1..(i - 1) : IsMainDef(j))}
HasErr == ErrIdx # {}
FirstErr == Min(ErrIdx)

\* the indices of the test functions among the first n declarations
RECURSIVE TestDefsUpTo(_)
TestDefsUpTo(n) ==
    IF n = 0 THEN <<>>
    ELSE TestDefsUpTo(n - 1) \o (IF IsTestDef(n) THEN <<n>> ELSE <<>>)

\* C1 (as amended): a file with two definitions named main yields an
\* Error; when no qualifying function up to and including the second main
\* has a comment that fails slicing or configuration parsing, and the file
\* can be read for the evidence, the evidence line is the line of the
\* second main and the annotation names the line and column recorded for
\* the first main.
C1_TwoMainsError ==
    (pc = "done" /\ Cardinality(MainDefs) >= 2) =>
        /\ result.status = "Err"
        /\ (file.readable /\ \A i \in 1..SecondMain : ~BadComment(i)) =>
              /\ result.alert.description =
                     "file contains multiple main() functions"
              /\ result.alert.line =
                     position_from_cursor_location(file, SecondMain)[1]
              /\ result.alert.old_line =
                     position_from_cursor_location(file, FirstMain)[1]
              /\ result.alert.old_column =
                     position_from_cursor_location(file, FirstMain)[2]

\* C1 as stated: whenever the file has two definitions named main, the
\* Error cites the line of the second main and the position of the first.
C1_Original ==
    (pc = "done" /\ Cardinality(MainDefs) >= 2) =>
        /\ result.status = "Err"
        /\ result.alert.description = "file contains multiple main() functions"
        /\ result.alert.line =
               position_from_cursor_location(file, SecondMain)[1]
        /\ result.alert.old_line =
               position_from_cursor_location(file, FirstMain)[1]
        /\ result.alert.old_column =
               position_from_cursor_location(file, FirstMain)[2]

\* a second main was reached and reported, on another line than the first
C1_Witness ==
    /\ pc = "done"
    /\ Cardinality(MainDefs) >= 2
    /\ file.readable
    /\ \A i \in 1..SecondMain : ~BadComment(i)
    /\ result.status = "Err"
    /\ result.alert.description = "file contains multiple main() functions"
    /\ result.alert.old_line # result.alert.line

\* C2: a successful visit returns one ParsedTest per test function of the
\* file (prefix and non-empty suffix, with a body, in the file itself), in
\* source order, with name_slice the name without the prefix, and nothing
\* else.
C2_TestList ==
    result.status = "Ok" =>
        LET expected == TestDefsUpTo(Len(file.decls))
        IN  /\ Len(result.tests) = Len(expected)
            /\ \A k \in 1..Len(expected) :
                  /\ result.tests[k].function.name = NameOf(expected[k])
                  /\ DEFAULT_FUNCTION_PREFIX
                         \o result.tests[k].function.name_slice
                       = NameOf(expected[k])
                  /\ result.tests[k].range.body
                       = body_range(file, expected[k])

\* two tests were returned from a file that also defines another function
C2_Witness ==
    /\ result.status = "Ok"
    /\ Len(result.tests) = 2
    /\ \E i \in DeclIdx : IsDef(i) /\ ~IsTestDef(i)

\* C3: once the processing of a function has produced an Error, the
\* traversal has stopped at that function (the first one of the file that
\* produces an Error), nothing after it has been examined, and visit
\* returns that Error and nothing else.
C3_ErrorStopsTraversal ==
    /\ IsSome(ERROR) =>
          /\ HasErr
          /\ idx = FirstErr
          /\ pc \in {"walked", "done"}
          /\ Len(CLEAN_STACK) = Cardinality({i \in 1..FirstErr : IsDef(i)})
          /\ Len(TEST_STACK)
               = Cardinality({i \in 1..(FirstErr - 1) : IsTestDef(i)})
          /\ LET a == Unwrap(ERROR)
                 c == file.decls[FirstErr].comment
             IN  /\ a.kind = "Error"
                 /\ c = "badslice" =>
                       /\ a.description = "comment slicing failed"
                       /\ a.line = position_from_cursor_extent(file, FirstErr)
                 /\ c = "badconfig" =>
                       a.description =
                         "failed to parse TOML from comment into a Config type."
                 /\ c \in {"none", "ok"} =>
                       a.description \in
                         {"file contains multiple main() functions",
                          "file contains multiple main() functions, no evidence"}
    /\ (pc \in {"walked", "done"} /\ HasErr) => IsSome(ERROR)
    /\ (pc = "done" /\ HasErr) =>
          result = [status |-> "Err", alert |-> Unwrap(ERROR)]

\* an Error was returned although a warning had been collected and a
\* qualifying function follows the failing one
C3_Witness ==
    /\ pc = "done"
    /\ IsSome(ERROR)
    /\ result.status = "Err"
    /\ WARNINGS # <<>>
    /\ \E j \in DeclIdx : j > idx /\ Qualifies(j)

\* the indices of the prefix-only functions among the first n declarations
RECURSIVE PrefixOnlyUpTo(_)
PrefixOnlyUpTo(n) ==
    IF n = 0 THEN <<>>
    ELSE PrefixOnlyUpTo(n - 1) \o (IF IsPrefixOnlyDef(n) THEN <<n>> ELSE <<>>)

TestDefs == {i \in DeclIdx : IsTestDef(i)}

\* C4: every function definition named exactly `cesty_` that the traversal
\* has passed has produced exactly one Warning (in order, at its own line)
\* and no ParsedTest; it never produces an Error, the traversal goes on,
\* and a successful visit returns these Warnings.
C4_PrefixOnlyWarning ==
    /\ LET passed == PrefixOnlyUpTo(idx - 1)
       IN  /\ Len(WARNINGS) = Len(passed)
           /\ \A k \in 1..Len(passed) :
                 /\ WARNINGS[k].kind = "Warning"
                 /\ WARNINGS[k].line =
                        position_from_cursor_location(file, passed[k])[1]
    /\ \A k \in DOMAIN TEST_STACK :
           TEST_STACK[k].function.name # DEFAULT_FUNCTION_PREFIX
    /\ IsSome(MAIN) => Unwrap(MAIN)[1].function.name # DEFAULT_FUNCTION_PREFIX
    /\ (pc = "done" /\ ~HasErr /\ (file.readable \/ TestDefs = {})) =>
          /\ result.status = "Ok"
          /\ result.warnings = WARNINGS
          /\ Len(result.warnings) = Len(PrefixOnlyUpTo(Len(file.decls)))

\* a Warning was returned with a test that stands after the bare prefix
C4_Witness ==
    /\ pc = "done"
    /\ result.status = "Ok"
    /\ Len(result.warnings) = 1
    /\ \E i, j \in DeclIdx : i < j /\ IsPrefixOnlyDef(i) /\ IsTestDef(j)
    /\ Len(result.tests) >= 1

\* C5: the view `full` of every successful visit is the text of the file.
C5_FullIsFileText ==
    result.status = "Ok" => result.environment.full = file_contents(file)

Count(seq, x) == Cardinality({k \in DOMAIN seq : seq[k] = x})
InSeq(x, seq) == \E k \in DOMAIN seq : seq[k] = x

\* the bytes of the file from offset a up to offset b (excluded)
BytesOf(a, b) == {o + 1 : o \in a..(b - 1)}

OneMainSomeTests == Cardinality(MainDefs) = 1 /\ TestDefs # {}

\* C6 (as amended): for a file with exactly one entry point and n >= 1
\* test functions, none of whose comments fails slicing or configuration
\* parsing, and which can be read, the visit succeeds with n tests and the
\* entry point, and `templated` holds one `;` for every function
\* definition other than the entry point (n when the file defines no other
\* function) and none of the bytes of the entry point.
C6_OneMainSomeTests ==
    (pc = "done" /\ OneMainSomeTests /\ file.readable
        /\ \A i \in DeclIdx : ~BadComment(i)) =>
        /\ result.status = "Ok"
        /\ Len(result.tests) = Cardinality(TestDefs)
        /\ IsSome(result.main)
        /\ Unwrap(result.main).function.name = MainName
        /\ Count(result.environment.templated, Semicolon)
             = Cardinality({i \in DeclIdx : IsDef(i) /\ ~IsMainDef(i)})
        /\ \A b \in BytesOf(FuncStart(file, FirstMain),
                            body_range(file, FirstMain)[2]) :
               ~InSeq(b, result.environment.templated)

\* C6 as stated: one entry point and n >= 1 tests give a successful visit
\* with n tests, the entry point, and exactly n `;` in `templated`.
C6_Original ==
    (pc = "done" /\ OneMainSomeTests) =>
        /\ result.status = "Ok"
        /\ Len(result.tests) = Cardinality(TestDefs)
        /\ IsSome(result.main)
        /\ Count(result.environment.templated, Semicolon)
             = Cardinality(TestDefs)
        /\ \A b \in BytesOf(FuncStart(file, FirstMain),
                            body_range(file, FirstMain)[2]) :
               ~InSeq(b, result.environment.templated)

\* the case of the specification: one entry point and two tests
C6_Witness ==
    /\ pc = "done"
    /\ OneMainSomeTests
    /\ result.status = "Ok"
    /\ IsSome(result.main)
    /\ Len(result.tests) = 2

\* `text` with every range of `ranges` cut out, a `;` standing in for the
\* ranges that are not the entry point: built byte by byte from offset o
RECURSIVE Rebuild(_, _, _)
Rebuild(text, ranges, o) ==
    IF o >= Len(text) THEN <<>>
    ELSE (IF \E r \in ranges : r[1] = o /\ ~r[3] THEN <<Semicolon>>
          ELSE IF \E r \in ranges : r[1] <= o /\ o < r[2] THEN <<>>
          ELSE <<text[o + 1]>>)
         \o Rebuild(text, ranges, o + 1)

Recorded == {CLEAN_STACK[k] : k \in DOMAIN CLEAN_STACK}

\* C7: `templated` is `full` with every recorded body range replaced by
\* one `;` and the range of the entry point removed, all other bytes
\* unchanged and in order.
C7_Templated ==
    result.status = "Ok" =>
        /\ result.environment.templated
             = Rebuild(result.environment.full, Recorded, 0)
        /\ Count(result.environment.templated, Semicolon)
             = Cardinality({r \in Recorded : ~r[3]})

\* C8: `mainless` is `full` without the range of the entry point (from the
\* start of the function to the end of its body), and is `full` when the
\* file has no entry point.
C8_Mainless ==
    result.status = "Ok" =>
        IF MainDefs = {}
        THEN result.environment.mainless = result.environment.full
        ELSE LET a == FuncStart(file, FirstMain)
                 b == body_range(file, FirstMain)[2]
             IN  /\ result.environment.mainless
                      = Rebuild(result.environment.full, {<<a, b, TRUE>>}, 0)
                 /\ Len(result.environment.mainless) + (b - a)
                      = Len(result.environment.full)

AtOtherBody == pc = "walk" /\ phase = "body" /\ IsOtherDef(idx)

\* C10 (as amended): a function definition whose name is neither `main`
\* nor begins with the prefix records no ParsedTest, no Warning and no
\* Error and the traversal goes on; its body range is recorded as a
\* Modification all the same, so that its body is replaced by `;` in
\* `templated` whenever the views are synthesised.
C10_OtherFunction ==
    /\ [][AtOtherBody =>
            /\ UNCHANGED <<TEST_STACK, WARNINGS, MAIN, ERROR>>
            /\ CLEAN_STACK' =
                 Append(CLEAN_STACK,
                        <<body_range(file, idx)[1], body_range(file, idx)[2],
                          FALSE>>)
            /\ idx' = idx + 1]_vars
    /\ [](result.status = "Ok" /\ result.tests # <<>> =>
            \A i \in DeclIdx : IsOtherDef(i) =>
                /\ \A b \in BytesOf(body_range(file, i)[1],
                                    body_range(file, i)[2]) :
                       ~InSeq(b, result.environment.templated)
                /\ \A b \in BytesOf(FuncStart(file, i),
                                    body_range(file, i)[1]) :
                       InSeq(b, result.environment.templated)
                /\ Count(result.environment.templated, Semicolon) >= 2)

\* C10 as stated: such a function records nothing at all.
C10_Original == [][AtOtherBody => UNCHANGED accumulators]_vars

\* the views were synthesised for a file with such a function
C10_Witness ==
    /\ pc = "done"
    /\ result.status = "Ok"
    /\ result.tests # <<>>
    /\ \E i \in DeclIdx : IsOtherDef(i)
    /\ \E k \in DOMAIN CLEAN_STACK :
           \E i \in DeclIdx :
               IsOtherDef(i) /\ CLEAN_STACK[k][1] = body_range(file, i)[1]

(***************************************************************************)
(* The documentation comment of a function: its text is a sequence of      *)
(* characters, the one clang_Cursor_getRawCommentText returns.             *)
(***************************************************************************)
\* a comment has at most this many lines
MaxLines == 3
\* the line of the file the comment starts on
CommentLine == 1

\* the properties of CommentVariant::Singleline and CommentVariant::Multiline
Singleline_mark == <<"/", "/">>
Multiline_open == <<"/", "*">>
Multiline_close == <<"*", "/">>
Multiline_between == <<"*">>

\* str::contains(char)
Contains(s, c) == \E k \in DOMAIN s : s[k] = c

\* str::ends_with
EndsWith(s, p) ==
    Len(s) >= Len(p) /\ SubSeq(s, Len(s) - Len(p) + 1, Len(s)) = p

\* str::find(&str): the offset of the first occurrence
find(s, p) ==
    LET at == {k \in 0..(Len(s) - Len(p)) : SubSeq(s, k + 1, k + Len(p)) = p}
    IN  IF at = {} THEN None ELSE Some(Min(at))

\* str::find(|c| !m.contains(c) && !c.is_whitespace()): the offset of the
\* first character that is neither one of m nor white space
find_by(s, m) ==
    LET at == {k \in 0..(Len(s) - 1) :
                  ~Contains(m, s[k + 1]) /\ ~IsWhitespace(s[k + 1])}
    IN  IF at = {} THEN None ELSE Some(Min(at))

\* str::lines: the text cut at the line feeds; a line feed at the end of
\* the text opens no further line
RECURSIVE lines(_)
lines(s) ==
    IF s = <<>>
    THEN <<>>
    ELSE LET nl == find(s, <<"\n">>)
         IN  IF IsSome(nl)
             THEN <<SubSeq(s, 1, Unwrap(nl))>> \o lines(SliceFrom(s, Unwrap(nl) + 1))
             ELSE <<s>>

\* [String]::join("\n")
RECURSIVE join(_)
join(ls) ==
    IF ls = <<>>
    THEN <<>>
    ELSE IF Len(ls) = 1
         THEN ls[1]
         ELSE ls[1] \o <<"\n">> \o join(Tail(ls))

\* the lines a comment is written with
LineShapes ==
    { <<"/", "/", " ", "a">>,             \* // a
      <<" ", "/", "/", "b">>,             \*  //b
      <<" ", " ", "/", "/", "c">>,        \*   //c
      <<"/", "/", "/", "d">>,             \* ///d
      <<"/", "/">>,                       \* //
      <<"/", "*", "e", "*", "/">>,        \* /*e*/
      <<" ", "/", "*", "f", "*", "/">>,   \*  /*f*/
      <<"/", "*">>,                       \* /*
      <<"/", "*", "g">>,                  \* /*g
      <<" ", "*", " ", "h">>,             \*  * h
      <<"i">>,                            \* i
      <<"j", "*", "/">>,                  \* j*/
      <<"*", "/">>,                       \* */
      <<" ", "*", "/">>,                  \*  */
      <<"/", "*", "/">>,                  \* /*/
      <<>> }                              \* an empty line

\* the texts clang_Cursor_getRawCommentText returns
Comments ==
    {join(ls) : ls \in UNION {[1..n -> LineShapes] : n \in 1..MaxLines}}

\* the line of the function below a comment that ends on the line above it
FunctionLine(text) ==
    CommentLine + Cardinality({k \in DOMAIN text : text[k] = "\n"}) + 1

Ok(v) == [status |-> "Ok", value |-> v]
Err(a) == [status |-> "Err", alert |-> a]
\* a panic of the thread: unreachable!() or a split_at beyond the end
Panic == [status |-> "panic"]

\* a formatted message: the text of the format string and the values put in
Message(t, a) == [text |-> t, args |-> a]

\* variant: the Error does not say which delimiter is missing
MissingCloseError_Unnamed(line) ==
    [kind |-> "Error",
     description |-> Message("multiline comment is missing closing delimiter",
                             <<>>),
     line |-> line,
     relative_line |-> line - 1,
     comment |-> Message("this function has a multiline comment above it that doesn't have a closing delimiter",
                         <<>>),
     note |-> <<>>]

\* the Error for a block comment without closing delimiter
MissingCloseError(line) ==
    [kind |-> "Error",
     description |-> Message("multiline comment is missing closing delimiter",
                             <<Multiline_close>>),
     line |-> line,
     relative_line |-> line - 1,
     comment |-> Message("this function has a multiline comment above it that doesn't have a closing delimiter",
                         <<Multiline_close>>),
     note |-> <<>>]

\* variant: the notes list the variants against their declaration order
UnknownVariantError_Reversed(line) ==
    [kind |-> "Error",
     description |-> Message("parsing multiple comment variants failed", <<>>),
     line |-> line,
     relative_line |-> line - 1,
     comment |-> Message("this function has a unknown comment variant that was not detected.",
                         <<>>),
     note |-> << Message("supported comment variants are:", <<>>),
                 Message("CommentVariant::Multiline with opening delimiter and closing delimiter",
                         <<Multiline_open, Multiline_close>>),
                 Message("CommentVariant::Singleline with mark",
                         <<Singleline_mark>>) >>]

\* the Error for text that starts with the mark of no variant
UnknownVariantError(line) ==
    [kind |-> "Error",
     description |-> Message("parsing multiple comment variants failed", <<>>),
     line |-> line,
     relative_line |-> line - 1,
     comment |-> Message("this function has a unknown comment variant that was not detected.",
                         <<>>),
     note |-> << Message("supported comment variants are:", <<>>),
                 Message("CommentVariant::Singleline with mark",
                         <<Singleline_mark>>),
                 Message("CommentVariant::Multiline with opening delimiter and closing delimiter",
                         <<Multiline_open, Multiline_close>>) >>]

\* the Error for a line of a Singleline slice that does not start with the
\* mark
InvalidCommentError(code, line) ==
    [kind |-> "Error",
     description |-> Message("invalid comment", <<>>),
     code |-> code,
     line |-> line,
     relative_line |-> 0,
     comment |-> Message("expected a mark at the start", <<Singleline_mark>>),
     note |-> << Message("Expected a line to start with the mark for CommentVariant::Singleline",
                         <<Singleline_mark>>) >>]

\* the Error for a line whose content is found by the second search only
UnableToLocateError(code, line) ==
    [kind |-> "Error",
     description |-> Message("unable to locate starting position for comment part",
                             <<>>),
     code |-> code,
     line |-> line,
     relative_line |-> 0,
     comment |-> Message("this comment part failed to be parsed into a config part",
                         <<>>),
     note |-> <<>>]

\* variant: the inner loop ends after the first line
SinglelineAccumulate_OneLine(text, accumulation) ==
    LET nl == find(text, <<"\n">>)
        taken == IF IsSome(nl) THEN SubSeq(text, 1, Unwrap(nl) + 1) ELSE text
    IN  [slice |-> taken, rest |-> SliceFrom(text, Len(taken))]

\* the inner loop of the Singleline arm: a line is taken while the text
\* goes on, after white space, with the mark; the loop ends after the
\* first blank piece
RECURSIVE SinglelineAccumulate(_, _)
SinglelineAccumulate(text, accumulation) ==
    LET nl == find(text, <<"\n">>)
        taken == IF StartsWith(TrimStart(text), Singleline_mark)
                 THEN IF IsSome(nl)
                      THEN SubSeq(text, 1, Unwrap(nl) + 1)
                      ELSE text
                 ELSE <<>>
        rest == SliceFrom(text, Len(taken))
    IN  IF Trim(taken) = <<>>
        THEN [slice |-> accumulation \o taken, rest |-> rest]
        ELSE SinglelineAccumulate(rest, accumulation \o taken)

Slice(t, v) == [text |-> t, variant |-> v]

(***************************************************************************)
(* config_string_from_cursor: the content of every line of every slice,    *)
(* with the line as it was found, its line in the file and the column of   *)
(* the content.  The state of its loops is the record                      *)
(* [status, accumulated_lines, accumulation].                              *)
(***************************************************************************)
\* variant: a content line does not advance the count of lines
PushLine_NoAdvance(st, trimmed, line, position, start_line) ==
    IF position > Len(trimmed)
    THEN [st EXCEPT !.status = "panic"]
    ELSE [st EXCEPT
             !.accumulation = Append(@, << SliceFrom(trimmed, position), line,
                                           st.accumulated_lines + start_line,
                                           position >>)]

\* a content line is pushed; str::split_at panics beyond the end
PushLine(st, trimmed, line, position, start_line) ==
    IF position > Len(trimmed)
    THEN [st EXCEPT !.status = "panic"]
    ELSE [st EXCEPT
             !.accumulation = Append(@, << SliceFrom(trimmed, position), line,
                                           st.accumulated_lines + start_line,
                                           position >>),
             !.accumulated_lines = @ + 1]

\* variant: a line of marks does not advance the count of lines
SinglelineLine_SeparatorStays(st, line, start_line) ==
    LET trimmed == TrimStart(line)
        position == find_by(line, Singleline_mark)
    IN  IF StartsWith(trimmed, Singleline_mark)
        THEN IF IsSome(position)
             THEN PushLine(st, trimmed, line, Unwrap(position), start_line)
             ELSE st
        ELSE [st EXCEPT !.status = "Err",
                        !.alert = InvalidCommentError(line,
                                      start_line + st.accumulated_lines)]

\* the body of the loop over the lines of a Singleline slice
SinglelineLine(st, line, start_line) ==
    LET trimmed == TrimStart(line)
        position == find_by(line, Singleline_mark)
    IN  IF StartsWith(trimmed, Singleline_mark)
        THEN IF IsSome(position)
             THEN PushLine(st, trimmed, line, Unwrap(position), start_line)
             ELSE IF ~IsSome(find_by(Trim(SliceFrom(trimmed,
                                                    Len(Singleline_mark))),
                                     Singleline_mark))
                  THEN [st EXCEPT !.accumulated_lines = @ + 1]
                  ELSE [st EXCEPT !.status = "Err",
                                  !.alert = UnableToLocateError(line,
                                      start_line + st.accumulated_lines)]
        ELSE [st EXCEPT !.status = "Err",
                        !.alert = InvalidCommentError(line,
                                      start_line + st.accumulated_lines)]

\* the body of the loop over the lines of a Multiline slice
MultilineLine(st, line, start_line) ==
    LET trimmed == TrimStart(line)
        position == find_by(line, Multiline_between)
    IN  IF IsSome(position)
        THEN PushLine(st, trimmed, line, Unwrap(position), start_line)
        ELSE IF ~IsSome(find_by(TrimEnd(trimmed), Multiline_between))
             THEN [st EXCEPT !.accumulated_lines = @ + 1]
             ELSE [st EXCEPT !.status = "Err",
                             !.alert = UnableToLocateError(line,
                                           start_line + st.accumulated_lines)]

\* a Multiline slice without its delimiters; None where the code has
\* unreachable!()
comment_line_delimited(comment_string) ==
    LET comment_trimmed == Trim(comment_string)
        comment_start_delimited ==
            SliceFrom(comment_trimmed, Len(Multiline_open))
    IN  IF ~StartsWith(comment_trimmed, Multiline_open)
        THEN None
        ELSE IF ~EndsWith(comment_start_delimited, Multiline_close)
             THEN None
             ELSE Some(SubSeq(comment_start_delimited, 1,
                              Len(comment_start_delimited)
                                  - Len(Multiline_close)))

\* the loop over the lines of one slice
RECURSIVE ForLines(_, _, _, _)
ForLines(st, ls, variant, start_line) ==
    IF ls = <<>> \/ st.status # "Ok"
    THEN st
    ELSE ForLines(IF variant = "Singleline"
                  THEN SinglelineLine(st, Head(ls), start_line)
                  ELSE MultilineLine(st, Head(ls), start_line),
                  Tail(ls), variant, start_line)

\* the loop over the slices
RECURSIVE ForSlices(_, _, _)
ForSlices(st, slices, start_line) ==
    IF slices = <<>> \/ st.status # "Ok"
    THEN st
    ELSE LET s == Head(slices)
             delimited == comment_line_delimited(s.text)
         IN  ForSlices(IF s.variant = "Singleline"
                       THEN ForLines(st, lines(s.text), "Singleline",
                                     start_line)
                       ELSE IF ~IsSome(delimited)
                            THEN [st EXCEPT !.status = "panic"]
                            ELSE ForLines(st, lines(Unwrap(delimited)),
                                          "Multiline", start_line),
                       Tail(slices), start_line)

RECURSIVE total_lines(_)
total_lines(slices) ==
    IF slices = <<>>
    THEN 0
    ELSE Len(lines(Head(slices).text)) + total_lines(Tail(slices))

\* config_string_from_cursor once the slices are there
config_string_from_cursor(slices, location_line) ==
    LET start_line == location_line - total_lines(slices)
        st == ForSlices([status |-> "Ok", accumulated_lines |-> 0,
                         accumulation |-> <<>>, alert |-> None],
                        slices, start_line)
    IN  IF st.status = "Ok"
        THEN Ok(Some(st.accumulation))
        ELSE IF st.status = "Err" THEN Err(st.alert) ELSE Panic

(***************************************************************************)
(* Config::from_comment_lines.  toml::from_str is not part of the          *)
(* repository: it accepts the text, or it rejects it with or without a     *)
(* span, whose start is an offset into the text.                           *)
(***************************************************************************)
TomlOutcomes(text) ==
    {[ok |-> TRUE, span |-> None]}
        \cup (IF text = <<>>
              THEN {}
              ELSE {[ok |-> FALSE, span |-> None]}
                       \cup {[ok |-> FALSE, span |-> Some(o)] :
                                o \in 0..Len(text)})

RECURSIVE Column0(_)
Column0(ls) == IF ls = <<>> THEN <<>> ELSE <<Head(ls)[1]>> \o Column0(Tail(ls))

\* the text handed to toml::from_str
ConfigText(ls) == join(Column0(ls))

NoSpanError ==
    [kind |-> "Error",
     description |-> Message("failed to parse TOML from comment into a Config type.",
                             <<>>),
     evidence |-> None,
     note |-> << Message("no error span was recovered, here is the error message:",
                         <<>>),
                 Message("message", <<>>) >>]

SpanError(entry, column) ==
    [kind |-> "Error",
     description |-> Message("failed to parse TOML from comment into a Config type.",
                             <<>>),
     evidence |-> Some([line |-> entry[3],
                        code |-> entry[2],
                        relative_line |-> 0,
                        column |-> column + entry[4]]),
     note |-> <<>>]

from_comment_lines(ls, outcome) ==
    LET text == ConfigText(ls)
        start_lines == lines(SubSeq(text, 1, Unwrap(outcome.span)))
        line == Len(start_lines) - 1
        column == Len(start_lines[Len(start_lines)])
    IN  IF outcome.ok
        THEN Ok("parsed")
        ELSE IF IsSome(outcome.span)
             THEN IF start_lines = <<>>
                  THEN Err(NoSpanError)
                  ELSE Err(SpanError(ls[line + 1], column))
             ELSE Err(NoSpanError)

(***************************************************************************)
(* The way of one comment: comment_slices_from_cursor (one action for      *)
(* every turn of its while loop), the rest of config_string_from_cursor,   *)
(* and Config::from_comment_lines, as filter calls them.                   *)
(***************************************************************************)
InitComment ==
    /\ raw \in {None} \cup {Some(c) : c \in Comments}
    /\ cpc = "start"
    /\ comment = <<>>
    /\ comment_slices = <<>>
    /\ comment_lines = Pending
    /\ toml = Pending
    /\ parsed = Pending
    /\ ConfigIdle
    /\ VisitIdle
    /\ ThreadIdle

\* the line of the function the comment stands above
function_line == FunctionLine(Unwrap(raw))

\* the raw comment is fetched and trimmed; without a comment
\* config_string_from_cursor returns Ok(None)
CommentBegin ==
    /\ cpc = "start"
    /\ IF IsSome(raw)
       THEN /\ comment' = Trim(Unwrap(raw))
            /\ cpc' = "slice"
            /\ UNCHANGED comment_lines
       ELSE /\ comment_lines' = Ok(None)
            /\ cpc' = "parse"
            /\ UNCHANGED comment
    /\ UNCHANGED <<raw, comment_slices, toml, parsed, notCommentVars>>

\* one turn of the while loop
SliceIteration ==
    /\ cpc = "slice"
    /\ Trim(comment) # <<>>
    /\ IF StartsWith(comment, Singleline_mark)
       THEN LET r == SinglelineAccumulate(comment, <<>>)
            IN  /\ comment_slices' =
                       Append(comment_slices, Slice(r.slice, "Singleline"))
                /\ comment' = r.rest
                /\ UNCHANGED <<cpc, comment_lines>>
       ELSE IF StartsWith(comment, Multiline_open)
            THEN LET position == find(comment, Multiline_close)
                     at == Unwrap(position) + Len(Multiline_close)
                 IN  IF IsSome(position)
                     THEN /\ comment_slices' =
                                 Append(comment_slices,
                                        Slice(SubSeq(comment, 1, at),
                                              "Multiline"))
                          /\ comment' = Trim(SliceFrom(comment, at))
                          /\ UNCHANGED <<cpc, comment_lines>>
                     ELSE /\ comment_lines' =
                                 Err(MissingCloseError(function_line))
                          /\ cpc' = "done"
                          /\ UNCHANGED <<comment, comment_slices>>
            ELSE /\ comment_lines' = Err(UnknownVariantError(function_line))
                 /\ cpc' = "done"
                 /\ UNCHANGED <<comment, comment_slices>>
    /\ UNCHANGED <<raw, toml, parsed, notCommentVars>>

\* the while loop ends: Ok(Some(comment_slices))
SliceEnd ==
    /\ cpc = "slice"
    /\ Trim(comment) = <<>>
    /\ cpc' = "text"
    /\ UNCHANGED <<raw, comment, comment_slices, comment_lines, toml, parsed,
                   notCommentVars>>

\* config_string_from_cursor after the slices have come back
ConfigString ==
    /\ cpc = "text"
    /\ comment_lines' = config_string_from_cursor(comment_slices,
                                                  function_line)
    /\ cpc' = IF comment_lines'.status = "Ok" THEN "parse" ELSE "done"
    /\ UNCHANGED <<raw, comment, comment_slices, toml, parsed, notCommentVars>>

\* filter: Config::from_comment_lines on the lines, Config::default()
\* without a comment
ParseConfig ==
    /\ cpc = "parse"
    /\ IF IsSome(comment_lines.value)
       THEN \E outcome \in TomlOutcomes(ConfigText(Unwrap(comment_lines.value))) :
                /\ toml' = outcome
                /\ parsed' = from_comment_lines(Unwrap(comment_lines.value),
                                                outcome)
       ELSE /\ parsed' = Ok("default")
            /\ UNCHANGED toml
    /\ cpc' = "done"
    /\ UNCHANGED <<raw, comment, comment_slices, comment_lines, notCommentVars>>

NextComment ==
    CommentBegin \/ SliceIteration \/ SliceEnd \/ ConfigString \/ ParseConfig

SpecComment == InitComment /\ [][NextComment]_vars

(***************************************************************************)
(* Vocabulary of the properties of a comment, stated on the text of the    *)
(* comment as C reads it: line after line, a line comment goes to the end  *)
(* of its line and a block comment to the first closing delimiter after    *)
(* its opening one.                                                        *)
(***************************************************************************)
\* the lines of a text, cut at every line feed
RECURSIVE RawLines(_)
RawLines(s) ==
    LET nl == find(s, <<"\n">>)
    IN  IF IsSome(nl)
        THEN <<SubSeq(s, 1, Unwrap(nl))>> \o RawLines(SliceFrom(s, Unwrap(nl) + 1))
        ELSE <<s>>

\* s without its leading white space and characters of chars
RECURSIVE Strip(_, _)
Strip(s, chars) ==
    IF s # <<>> /\ (IsWhitespace(Head(s)) \/ Head(s) \in chars)
    THEN Strip(Tail(s), chars)
    ELSE s

IsBlankLine(l) == Trim(l) = <<>>
IsLineCommentLine(l) == StartsWith(TrimStart(l), <<"/", "/">>)
OpensBlock(l) == StartsWith(TrimStart(l), <<"/", "*">>)
\* what follows the opening delimiter on its line
AfterOpen(l) == SliceFrom(TrimStart(l), 2)
Closes(s) == IsSome(find(s, <<"*", "/">>))
\* the closing delimiter is the last thing on the line
ClosesAtEnd(s) ==
    /\ Closes(s)
    /\ Unwrap(find(s, <<"*", "/">>)) + 2 = Len(TrimEnd(s))
BeforeClose(s) == SubSeq(s, 1, Unwrap(find(s, <<"*", "/">>)))

\* from line k on, the lines are line comments, terminated block comments
\* and blank lines
RECURSIVE WellFormedFrom(_, _, _)
WellFormedFrom(ls, k, inBlock) ==
    IF k > Len(ls)
    THEN ~inBlock
    ELSE LET l == ls[k]
         IN  IF inBlock
             THEN IF Closes(l)
                  THEN ClosesAtEnd(l) /\ WellFormedFrom(ls, k + 1, FALSE)
                  ELSE WellFormedFrom(ls, k + 1, TRUE)
             ELSE IF IsBlankLine(l) \/ IsLineCommentLine(l)
                  THEN WellFormedFrom(ls, k + 1, FALSE)
                  ELSE IF OpensBlock(l)
                       THEN IF Closes(AfterOpen(l))
                            THEN /\ ClosesAtEnd(AfterOpen(l))
                                 /\ WellFormedFrom(ls, k + 1, FALSE)
                            ELSE WellFormedFrom(ls, k + 1, TRUE)
                       ELSE FALSE

\* the comment starts and ends with a comment, as the text clang returns
WellFormed(text) ==
    LET ls == RawLines(text)
    IN  /\ text # <<>>
        /\ Trim(text) = text
        /\ WellFormedFrom(ls, 1, FALSE)

ContentLine(c, k) ==
    IF c = <<>> THEN <<>> ELSE <<[content |-> c, line |-> CommentLine + k - 1]>>

\* the content lines of a well-formed comment with their lines in the file
RECURSIVE ContentFrom(_, _, _)
ContentFrom(ls, k, inBlock) ==
    IF k > Len(ls)
    THEN <<>>
    ELSE LET l == ls[k]
         IN  IF inBlock
             THEN IF Closes(l)
                  THEN ContentLine(Strip(BeforeClose(l), {"*"}), k)
                           \o ContentFrom(ls, k + 1, FALSE)
                  ELSE ContentLine(Strip(l, {"*"}), k)
                           \o ContentFrom(ls, k + 1, TRUE)
             ELSE IF IsLineCommentLine(l)
                  THEN ContentLine(Strip(l, {"/"}), k)
                           \o ContentFrom(ls, k + 1, FALSE)
                  ELSE IF OpensBlock(l)
                       THEN IF Closes(AfterOpen(l))
                            THEN ContentLine(Strip(BeforeClose(AfterOpen(l)),
                                                   {"*"}), k)
                                     \o ContentFrom(ls, k + 1, FALSE)
                            ELSE ContentLine(Strip(AfterOpen(l), {"*"}), k)
                                     \o ContentFrom(ls, k + 1, TRUE)
                       ELSE ContentFrom(ls, k + 1, FALSE)

Content(text) == ContentFrom(RawLines(text), 1, FALSE)

RECURSIVE ContentsOf(_)
ContentsOf(cs) ==
    IF cs = <<>> THEN <<>> ELSE <<Head(cs).content>> \o ContentsOf(Tail(cs))

\* config_string_from_cursor has returned for a well-formed comment
TextedWellFormed ==
    /\ cpc \in {"parse", "done"}
    /\ IsSome(raw)
    /\ WellFormed(Unwrap(raw))

\* C11: for every comment made of line-comment groups and terminated block
\* comments, separated by white space only, config_string_from_cursor
\* succeeds and returns the content lines of the comment in their order.
C11_InterleavedSlices ==
    TextedWellFormed =>
        /\ comment_lines.status = "Ok"
        /\ IsSome(comment_lines.value)
        /\ Column0(Unwrap(comment_lines.value))
               = ContentsOf(Content(Unwrap(raw)))

\* config_string_from_cursor has succeeded on a well-formed comment
ExtractedWellFormed ==
    /\ TextedWellFormed
    /\ comment_lines.status = "Ok"
    /\ IsSome(comment_lines.value)

Extracted == Unwrap(comment_lines.value)

\* C12: every extracted line is the content of its source line: the line
\* without leading white space, marker or delimiters, and further marker
\* or between characters and white space.
C12_ContentOfLine ==
    ExtractedWellFormed =>
        \A k \in DOMAIN Extracted \cap DOMAIN Content(Unwrap(raw)) :
            Extracted[k][1] = Content(Unwrap(raw))[k].content

\* the slices stand on consecutive lines
NoBlankLine(text) ==
    \A k \in DOMAIN RawLines(text) : ~IsBlankLine(RawLines(text)[k])

\* C13: every extracted line carries the line of the file it stands on,
\* the comment ending on the line above the function.
C13_TrueFileLine ==
    ExtractedWellFormed /\ NoBlankLine(Unwrap(raw)) =>
        \A k \in DOMAIN Extracted \cap DOMAIN Content(Unwrap(raw)) :
            Extracted[k][3] = Content(Unwrap(raw))[k].line

\* toml::from_str has rejected the text and reported a span
ParseFailedWithSpan ==
    /\ cpc = "done"
    /\ parsed.status = "Err"
    /\ IsSome(toml.span)

\* the offset the span starts at
SpanStart == Unwrap(toml.span)

\* the line feeds of the text before offset o
NewlinesBefore(text, o) ==
    Cardinality({k \in 1..o : text[k] = "\n"})

\* the logical line of the offset the span starts at
FailingLine == NewlinesBefore(ConfigText(Extracted), SpanStart) + 1

\* C14: when the text fails to parse at offset o, the evidence of the
\* Error is looked up at the logical line with as many line feeds before
\* o, and its line is the file line recorded for that logical line.
C14_LogicalLine ==
    ParseFailedWithSpan =>
        /\ IsSome(parsed.alert.evidence)
        /\ Unwrap(parsed.alert.evidence).line = Extracted[FailingLine][3]

(***************************************************************************)
(* The Config of a function.  toml::from_str hands the tables and keys it  *)
(* has read to the Deserialize implementations serde derives for Config,   *)
(* Settings and Compiler; a key that is missing is None.                   *)
(***************************************************************************)
Opt(S) == {None} \cup {Some(x) : x \in S}

\* the tables of a comment
SettingsTables == [run : Opt(BOOLEAN), stdout : Opt(BOOLEAN), stdin : Opt(BOOLEAN)]
CompilerTables == [name : Opt({"clang"}), flags : Opt({<<>>, <<"-g">>})]
Documents ==
    [settings : Opt(SettingsTables),
     compiler : Opt(CompilerTables),
     commands : Opt({<<>>, <<"make">>})]

\* the value of a key, or the value of #[serde(default = ..)]
OrDefault(o, d) == IF IsSome(o) THEN Unwrap(o) ELSE d

settings_bool_init == FALSE

\* impl Default for Settings
Settings_default == [run |-> TRUE, stdout |-> FALSE, stdin |-> FALSE]

\* #[derive(Default)] of Compiler
Compiler_default == [name |-> None, flags |-> <<>>]

\* #[derive(Default)] of Config
Config_default ==
    [settings |-> Settings_default,
     compiler |-> Compiler_default,
     commands |-> <<>>]

\* #[derive(Deserialize)] of Settings
Settings_deserialize(t) ==
    [run |-> OrDefault(t.run, settings_bool_init),
     stdout |-> OrDefault(t.stdout, settings_bool_init),
     stdin |-> OrDefault(t.stdin, settings_bool_init)]

\* #[derive(Deserialize)] of Compiler
Compiler_deserialize(t) ==
    [name |-> t.name,
     flags |-> OrDefault(t.flags, <<>>)]

\* #[derive(Deserialize)] of Config
Config_deserialize(d) ==
    [settings |-> IF IsSome(d.settings)
                  THEN Settings_deserialize(Unwrap(d.settings))
                  ELSE Settings_default,
     compiler |-> IF IsSome(d.compiler)
                  THEN Compiler_deserialize(Unwrap(d.compiler))
                  ELSE Compiler_default,
     commands |-> OrDefault(d.commands, <<>>)]

InitConfig ==
    /\ document \in Opt(Documents)
    /\ config = Pending
    /\ CommentIdle
    /\ VisitIdle
    /\ ThreadIdle

\* filter: Config::from_comment_lines when the function has a comment
ConfigFromComment ==
    /\ config = Pending
    /\ IsSome(document)
    /\ config' = Ok(Config_deserialize(Unwrap(document)))
    /\ UNCHANGED <<document, notConfigVars>>

\* filter: Config::default() when it has none
ConfigDefault ==
    /\ config = Pending
    /\ ~IsSome(document)
    /\ config' = Ok(Config_default)
    /\ UNCHANGED <<document, notConfigVars>>

NextConfig == ConfigFromComment \/ ConfigDefault

SpecConfig == InitConfig /\ [][NextConfig]_vars

\* the key of a table of the comment is not set: there is no comment, no
\* such table, or no such key in it
Unset(table, key) ==
    \/ ~IsSome(document)
    \/ ~IsSome(Unwrap(document)[table])
    \/ ~IsSome(Unwrap(Unwrap(document)[table])[key])

\* C15: a field the comment does not set has its documented default:
\* run is true, stdout and stdin are false, the compiler overrides and
\* the commands are empty.
C15_Defaults ==
    config.status = "Ok" =>
        /\ Unset("settings", "run") => config.value.settings.run = TRUE
        /\ Unset("settings", "stdout") => config.value.settings.stdout = FALSE
        /\ Unset("settings", "stdin") => config.value.settings.stdin = FALSE
        /\ Unset("compiler", "name") => config.value.compiler.name = None
        /\ Unset("compiler", "flags") => config.value.compiler.flags = <<>>
        /\ (~IsSome(document) \/ ~IsSome(Unwrap(document).commands)) =>
               config.value.commands = <<>>

\* the while loop stands before a block comment in which no closing
\* delimiter follows
UnterminatedAhead ==
    /\ cpc = "slice"
    /\ StartsWith(comment, <<"/", "*">>)
    /\ ~IsSome(find(comment, <<"*", "/">>))

\* the values put into a message
Names(message, x) == \E k \in DOMAIN message.args : message.args[k] = x

UnknownAhead ==
    /\ cpc = "slice"
    /\ Trim(comment) # <<>>
    /\ ~StartsWith(comment, <<"/", "/">>)
    /\ ~StartsWith(comment, <<"/", "*">>)

\* the while loop stands before blank text
BlankAhead == cpc = "slice" /\ Trim(comment) = <<>>

\* C17: text that is not blank and starts with neither // nor /* ends the
\* slicing with an Error and without slices; after a heading, its notes
\* name the variants in the order of their declaration, Singleline with
\* its mark and Multiline with its two delimiters.  Blank text ends the
\* slicing with the slices taken so far.
C17_UnknownVariant ==
    /\ [][UnknownAhead =>
             /\ comment_lines'.status = "Err"
             /\ cpc' = "done"
             /\ LET note == comment_lines'.alert.note
                IN  /\ Len(note) = 3
                    /\ note[1].args = <<>>
                    /\ note[2].args = << <<"/", "/">> >>
                    /\ note[3].args = << <<"/", "*">>, <<"*", "/">> >>]_vars
    /\ [][BlankAhead =>
             /\ cpc' = "text"
             /\ comment_lines' = Pending
             /\ comment_slices' = comment_slices]_vars

\* text of no variant after a slice has been taken
C17_Witness ==
    /\ cpc = "done"
    /\ comment_lines.status = "Err"
    /\ comment_slices # <<>>
    /\ Trim(comment) # <<>>
    /\ ~StartsWith(comment, <<"/", "/">>)
    /\ ~StartsWith(comment, <<"/", "*">>)

\* the characters of the text between the last line feed before offset o
\* and o
OffsetInLine(text, o) ==
    LET feeds == {k \in 1..o : text[k] = "\n"}
    IN  IF feeds = {} THEN o ELSE o - CHOOSE k \in feeds : \A j \in feeds : j <= k

\* every content line of the comment has been extracted
ExtractedAll ==
    /\ ExtractedWellFormed
    /\ Len(Extracted) = Len(Content(Unwrap(raw)))

\* the line of the comment the failing logical line was extracted from
FailingSourceLine ==
    RawLines(Unwrap(raw))[Content(Unwrap(raw))[FailingLine].line - CommentLine + 1]

\* the span starts behind the first character of its logical line
InsideLine ==
    /\ SpanStart > 0
    /\ ConfigText(Extracted)[SpanStart] # "\n"

\* C19: when the text fails to parse and a span is reported (here: one
\* that starts inside a line), the evidence of the Error is the source
\* line of the failing logical line as it stands in the comment,
\* delimiters included, and the fix annotation stands at the recorded
\* column of the line plus the offset of the failure in the extracted line.
C19_EvidenceIsSourceLine ==
    ParseFailedWithSpan /\ ExtractedAll /\ InsideLine =>
        /\ IsSome(parsed.alert.evidence)
        /\ Unwrap(parsed.alert.evidence).code = FailingSourceLine
        /\ Unwrap(parsed.alert.evidence).column
               = Extracted[FailingLine][4]
                     + OffsetInLine(ConfigText(Extracted), SpanStart)

\* every line of the comment is a line comment
IsLineCommentBlock(text) ==
    /\ Trim(text) = text
    /\ \A k \in DOMAIN RawLines(text) : IsLineCommentLine(RawLines(text)[k])

\* an extracted line behind the marker and one space
Reprefixed(extracted) == <<"/", "/", " ">> \o extracted

\* what the extraction returns for one line comment
ExtractedAgain(l) ==
    config_string_from_cursor(<<Slice(l, "Singleline")>>, CommentLine + 1)

\* C20: for a comment of line comments only, every extracted line, put
\* behind the marker and one space and extracted again, comes back as it
\* was.
C20_RoundTrip ==
    (/\ cpc \in {"parse", "done"}
     /\ IsSome(raw)
     /\ IsLineCommentBlock(Unwrap(raw))
     /\ comment_lines.status = "Ok") =>
        \A k \in DOMAIN Extracted :
            LET again == ExtractedAgain(Reprefixed(Extracted[k][1]))
            IN  /\ again.status = "Ok"
                /\ Len(Unwrap(again.value)) = 1
                /\ Unwrap(again.value)[1][1] = Extracted[k][1]

(***************************************************************************)
(* Two threads that call visit again and again.  The accumulators are      *)
(* thread_local!: every thread has its own, which keep their value between *)
(* two calls of visit on the thread.  The variables of the visitor are     *)
(* those of the thread that runs; `parked` holds those of the other        *)
(* thread, and a switch of the processor exchanges the two.                *)
(***************************************************************************)
\* the functions of a file visited here
MaxThreadFuncs == 2
\* the calls of visit a thread makes
MaxVisits == 2

ThreadDecls ==
    { Decl("def", DEFAULT_FUNCTION_PREFIX \o <<"a">>, "ok"),
      Decl("def", DEFAULT_FUNCTION_PREFIX \o <<"a">>, "badslice"),
      Decl("def", MainName, "none") }

ThreadFiles ==
    {[decls |-> ds, sep |-> "nl", readable |-> TRUE] :
        ds \in UNION {[1..n -> ThreadDecls] : n \in 0..MaxThreadFuncs}}

\* a thread about to make its first call of visit on f: its thread locals
\* have their initial values
FirstCall(f) ==
    [file |-> f, pc |-> "start", idx |-> 1, phase |-> "decl",
     TEST_STACK |-> <<>>, CLEAN_STACK |-> <<>>, WARNINGS |-> <<>>,
     MAIN |-> None, ERROR |-> None, result |-> Pending, visits |-> 1]

\* the thread that runs
Running ==
    [file |-> file, pc |-> pc, idx |-> idx, phase |-> phase,
     TEST_STACK |-> TEST_STACK, CLEAN_STACK |-> CLEAN_STACK,
     WARNINGS |-> WARNINGS, MAIN |-> MAIN, ERROR |-> ERROR,
     result |-> result, visits |-> visits]

InitThreads ==
    /\ \E f \in ThreadFiles :
           /\ file = f
           /\ pc = FirstCall(f).pc
           /\ idx = FirstCall(f).idx
           /\ phase = FirstCall(f).phase
           /\ TEST_STACK = FirstCall(f).TEST_STACK
           /\ CLEAN_STACK = FirstCall(f).CLEAN_STACK
           /\ WARNINGS = FirstCall(f).WARNINGS
           /\ MAIN = FirstCall(f).MAIN
           /\ ERROR = FirstCall(f).ERROR
           /\ result = FirstCall(f).result
           /\ visits = FirstCall(f).visits
    /\ parked \in {Some(FirstCall(f)) : f \in ThreadFiles}
    /\ CommentIdle
    /\ ConfigIdle

\* the running thread calls visit once more: its thread locals are what
\* the call before has left
VisitAgain ==
    /\ pc = "done"
    /\ visits < MaxVisits
    /\ file' \in ThreadFiles
    /\ pc' = "start"
    /\ idx' = 1
    /\ phase' = "decl"
    /\ result' = Pending
    /\ visits' = visits + 1
    /\ UNCHANGED <<accumulators, parked, commentVars, configVars>>

\* the other thread gets the processor
Switch ==
    /\ parked' = Some(Running)
    /\ file' = Unwrap(parked).file
    /\ pc' = Unwrap(parked).pc
    /\ idx' = Unwrap(parked).idx
    /\ phase' = Unwrap(parked).phase
    /\ TEST_STACK' = Unwrap(parked).TEST_STACK
    /\ CLEAN_STACK' = Unwrap(parked).CLEAN_STACK
    /\ WARNINGS' = Unwrap(parked).WARNINGS
    /\ MAIN' = Unwrap(parked).MAIN
    /\ ERROR' = Unwrap(parked).ERROR
    /\ result' = Unwrap(parked).result
    /\ visits' = Unwrap(parked).visits
    /\ UNCHANGED <<commentVars, configVars>>

NextThreads ==
    VisitBegin \/ FilterDecl \/ FilterBody \/ VisitEnd \/ VisitAgain \/ Switch

SpecThreads == InitThreads /\ [][NextThreads]_vars

\* both threads have come back from visit on the same file
BothDone ==
    /\ pc = "done"
    /\ Unwrap(parked).pc = "done"
    /\ file = Unwrap(parked).file

\* C18: what visit returns depends on the file only: two calls on the
\* same file, whatever calls were made before them on their threads and
\* whatever the other thread did meanwhile, return the same tests, main,
\* Environment and warnings, or the same Error.
C18_DependsOnFileOnly ==
    BothDone => result = Unwrap(parked).result

\* a first call and a call after an earlier one have returned the same
\* views of a file with a test
C18_Witness ==
    /\ BothDone
    /\ visits = 2
    /\ Unwrap(parked).visits = 1
    /\ result.status = "Ok"
    /\ result.tests # <<>>
    /\ result.environment.full # <<>>

(***************************************************************************)
(* Claims about the recorded ranges.                                       *)
(***************************************************************************)
\* two half-open byte ranges share a byte
Overlap(r, q) == r[1] < q[2] /\ q[1] < r[2]

\* the range mainless removes: the entry point's template start to body end
MainRange ==
    <<Unwrap(MAIN)[1].range.template[1], Unwrap(MAIN)[1].range.body[2]>>

\* C21: the ranges recorded for one file (one per function body, and for
\* the entry point the range from its template start to its body end) are
\* pairwise non-overlapping: no two entries of CLEAN_STACK share a byte, and
\* the range kept with MAIN shares a byte with no entry but its own.
C21_NonOverlapping ==
    /\ \A j, k \in DOMAIN CLEAN_STACK :
           j # k => ~Overlap(CLEAN_STACK[j], CLEAN_STACK[k])
    /\ IsSome(MAIN) =>
           \A k \in DOMAIN CLEAN_STACK :
               \/ <<CLEAN_STACK[k][1], CLEAN_STACK[k][2]>> = MainRange
               \/ ~Overlap(CLEAN_STACK[k], MainRange)

\* a walk that recorded a test body, the entry point and one more body
C21_Witness ==
    /\ pc = "done"
    /\ IsSome(MAIN)
    /\ Len(CLEAN_STACK) = 3
    /\ CLEAN_STACK[2][3]
    /\ TEST_STACK # <<>>

(***************************************************************************)
(* Claims about the line numbers of the extracted lines.                   *)
(***************************************************************************)
\* config_string_from_cursor has returned lines
Returned == comment_lines.status = "Ok" /\ IsSome(comment_lines.value)

\* C22: the file line numbers of the entries of the returned lines are
\* strictly increasing in the order of the entries, across the boundaries
\* of slices and across skipped lines, and the returned lines are not
\* changed afterwards.
C22_LinesIncrease ==
    /\ [](Returned =>
            \A j, k \in DOMAIN Extracted :
                j < k => Extracted[j][3] < Extracted[k][3])
    /\ [][Returned => comment_lines' = comment_lines]_vars

\* lines of two slices with a skipped line between two of them, after the
\* configuration has been parsed
C22_Witness ==
    /\ cpc = "done"
    /\ parsed.status # "pending"
    /\ Returned
    /\ Len(comment_slices) >= 2
    /\ \E k \in DOMAIN Extracted :
           /\ k + 1 \in DOMAIN Extracted
           /\ Extracted[k + 1][3] > Extracted[k][3] + 1

(***************************************************************************)
(* Claims about the order the ranges are applied in.                       *)
(***************************************************************************)
\* the ranges applied front to back, k the next range and shift the bytes
\* the text has lost so far
RECURSIVE ApplyFwd(_, _, _, _)
ApplyFwd(text, clean, k, shift) ==
    IF k > Len(clean) THEN text
    ELSE LET c == clean[k]
             r == IF c[3] THEN <<>> ELSE <<Semicolon>>
         IN  ApplyFwd(replace_range(text, c[1] - shift, c[2] - shift, r),
                      clean, k + 1, shift + (c[2] - c[1]) - Len(r))

\* the views have been synthesised
Synthesised == result.status = "Ok" /\ result.tests # <<>>

ParseFailed == cpc = "done" /\ parsed.status = "Err"

\* the notes of the Error hold the message of the parser
NotesHoldMessage ==
    \E k \in DOMAIN parsed.alert.note :
        parsed.alert.note[k] = Message("message", <<>>)

\* C24: the Error of a failed parse carries evidence exactly when the
\* parser reports a span, whatever offset the span starts at; it is
\* without evidence, its notes holding the parser's message, exactly when
\* the parser reports none.
C24_EvidenceIffSpan ==
    ParseFailed =>
        /\ IsSome(parsed.alert.evidence) <=> IsSome(toml.span)
        /\ (~IsSome(parsed.alert.evidence) /\ NotesHoldMessage)
               <=> ~IsSome(toml.span)

(***************************************************************************)
(* Claims about the lines that hold no content.                            *)
(***************************************************************************)
\* the lines the loops of config_string_from_cursor run over, slice after
\* slice, each with the characters that mark its variant
RECURSIVE LoopLines(_)
LoopLines(slices) ==
    IF slices = <<>> THEN <<>>
    ELSE LET s == Head(slices)
             ls == IF s.variant = "Singleline"
                   THEN lines(s.text)
                   ELSE lines(Unwrap(comment_line_delimited(s.text)))
             m == IF s.variant = "Singleline"
                  THEN Singleline_mark ELSE Multiline_between
         IN  [k \in DOMAIN ls |-> [line |-> ls[k], marks |-> m]]
                 \o LoopLines(Tail(slices))

\* nothing but marker characters and white space
OnlyMarks(line, marks) ==
    \A k \in DOMAIN line : Contains(marks, line[k]) \/ IsWhitespace(line[k])

\* the places, among the lines of the loops, of the lines with content
ContentPlaces ==
    LET all == LoopLines(comment_slices)
    IN  SelectSeq([k \in DOMAIN all |-> k],
                  LAMBDA k : ~OnlyMarks(all[k].line, all[k].marks))

\* the text of the Error of the branch that finds no starting position
UnableToLocate == "unable to locate starting position for comment part"

\* C25: a line that holds, after its marker, nothing but marker characters
\* and white space is skipped and is no error: it adds no entry and the
\* count of lines goes up by one all the same, so that every entry is the
\* content line at its place among all the lines, numbered by that place;
\* the Error `unable to locate starting position for comment part` is
\* never returned.
C25_SeparatorSkipped ==
    /\ Returned =>
           LET all == LoopLines(comment_slices)
               start_line == function_line - total_lines(comment_slices)
           IN  /\ Len(Extracted) = Len(ContentPlaces)
               /\ \A k \in DOMAIN Extracted :
                      /\ Extracted[k][2] = all[ContentPlaces[k]].line
                      /\ Extracted[k][3] = start_line + ContentPlaces[k] - 1
    /\ comment_lines.status = "Err" =>
           /\ comment_lines.alert.description.text # UnableToLocate
           /\ "code" \in DOMAIN comment_lines.alert =>
                  ~(/\ StartsWith(TrimStart(comment_lines.alert.code),
                                  Singleline_mark)
                    /\ OnlyMarks(comment_lines.alert.code, Singleline_mark))

\* lines returned whose first content line stands behind a skipped line,
\* one skipped line being a line of marks or white space that is not empty
C25_Witness ==
    /\ Returned
    /\ Len(Extracted) >= 1
    /\ ContentPlaces[1] > 1
    /\ \E k \in DOMAIN LoopLines(comment_slices) :
           /\ LoopLines(comment_slices)[k].line # <<>>
           /\ OnlyMarks(LoopLines(comment_slices)[k].line,
                        LoopLines(comment_slices)[k].marks)

(***************************************************************************)
(* Claims about the end of the slicing loop.  The code is sequential: a    *)
(* step that can be taken is taken, which is the weak fairness of every    *)
(* step of the comment.  A turn of the loop can be taken exactly when      *)
(* LoopTurn holds and the extraction exactly at "text"; the weak fairness  *)
(* of these two steps is written out with these conditions in the place   *)
(* of ENABLED.                                                             *)
(***************************************************************************)
\* the loop is about to take a turn
LoopTurn == cpc = "slice" /\ Trim(comment) # <<>>

SpecCommentLive ==
    /\ SpecComment
    /\ WF_vars(CommentBegin)
    /\ WF_vars(SliceEnd)
    /\ WF_vars(ParseConfig)
    /\ ([]<>(~LoopTurn) \/ []<><<SliceIteration>>_vars)
    /\ ([]<>(cpc # "text") \/ []<><<ConfigString>>_vars)

\* the turn has appended one slice and shortened the text by that slice
SliceTaken ==
    /\ Len(comment_slices') = Len(comment_slices) + 1
    /\ SubSeq(comment_slices', 1, Len(comment_slices)) = comment_slices
    /\ Len(comment') < Len(comment)
    /\ comment_lines' = comment_lines

\* the turn has returned an Error
SliceFailed ==
    /\ comment_lines'.status = "Err"
    /\ cpc' = "done"
    /\ comment_slices' = comment_slices

\* a group of line comments taken from `text` up to `rest`: every line
\* before its last starts with the mark, and it ends with a blank line or
\* in front of text that does not go on with the mark
GroupEnds(group, text, rest) ==
    LET ls == lines(group)
    IN  /\ group \o rest = text
        /\ \A k \in 1..(Len(ls) - 1) :
               StartsWith(TrimStart(ls[k]), Singleline_mark)
        /\ \/ Trim(ls[Len(ls)]) = <<>>
           \/ /\ StartsWith(TrimStart(ls[Len(ls)]), Singleline_mark)
              /\ ~StartsWith(TrimStart(rest), Singleline_mark)

\* C26: the slicing loop ends on every comment: a turn returns an Error,
\* or it appends one slice and takes at least one character from the text
\* that remains; a group of line comments ends at the first line that does
\* not start with the mark or is blank; the loop is left for the
\* extraction only when no text remains.
C26_SlicingTerminates ==
    /\ [][LoopTurn => SliceFailed \/ SliceTaken]_vars
    /\ [][(LoopTurn /\ SliceTaken
             /\ comment_slices'[Len(comment_slices')].variant = "Singleline")
            => GroupEnds(comment_slices'[Len(comment_slices')].text,
                         comment, comment')]_vars
    /\ [][(cpc = "slice" /\ cpc' = "text") => Trim(comment) = <<>>]_vars
    /\ <>(cpc \notin {"start", "slice"})

\* the loop has been left after two turns, the text used up, one slice
\* being a group of two line comments
C26_Witness ==
    /\ cpc = "text"
    /\ Len(comment_slices) = 2
    /\ Trim(comment) = <<>>
    /\ \E k \in DOMAIN comment_slices :
           /\ comment_slices[k].variant = "Singleline"
           /\ Len(lines(comment_slices[k].text)) = 2
           /\ Trim(lines(comment_slices[k].text)[2]) # <<>>

(***************************************************************************)
(* Claims about the ranges of a recorded function.                         *)
(***************************************************************************)
\* the ranges of the functions recorded so far
RecordedRanges ==
    {TEST_STACK[k].range : k \in DOMAIN TEST_STACK}
        \cup (IF IsSome(MAIN) THEN {Unwrap(MAIN)[1].range} ELSE {})

\* C27: for every recorded function the template range is the half-open
\* span from the start of the function to the start of its body
\* (template.end = body.start): the two ranges are adjacent, share no byte
\* and cover together the extent of the function.
C27_TemplateAdjacent ==
    \A r \in RecordedRanges :
        /\ r.template[2] = r.body[1]
        /\ \A i \in DeclIdx :
               (IsDef(i) /\ body_range(file, i) = r.body) =>
                   /\ r.template[1] = FuncStart(file, i)
                   /\ \A o \in FuncStart(file, i)..(r.body[2] - 1) :
                          (r.template[1] <= o /\ o < r.template[2])
                              \/ (r.body[1] <= o /\ o < r.body[2])

(***************************************************************************)
(* Claims about the slices of block comments.                              *)
(***************************************************************************)
\* the opening delimiter, content, and the closing delimiter behind it
Delimited(text) ==
    /\ Len(text) >= Len(Multiline_open) + Len(Multiline_close)
    /\ StartsWith(text, Multiline_open)
    /\ EndsWith(text, Multiline_close)

\* C28: every slice of a block comment the slicing loop appends is the
\* opening delimiter, content and the closing delimiter, the two
\* delimiters sharing no character, so that config_string_from_cursor
\* strips both delimiters and reaches neither unreachable!().
C28_BlockSliceDelimited ==
    \A k \in DOMAIN comment_slices :
        comment_slices[k].variant = "Multiline" =>
            /\ Delimited(comment_slices[k].text)
            /\ IsSome(comment_line_delimited(comment_slices[k].text))

(***************************************************************************)
(* Claims about a file with an entry point and no test.                    *)
(***************************************************************************)
\* one entry point with a sound comment, no test function, a readable file
OneMainNoTest ==
    /\ Cardinality(MainDefs) = 1
    /\ TestDefs = {}
    /\ \A i \in DeclIdx : ~BadComment(i)
    /\ file.readable

\* C29: a file that defines the entry point `main` and no test function
\* gives a successful result with the entry point populated and the views
\* derived from the text of the file: `full` is the text and `mainless`
\* the text without the entry point, as for a file that has tests too.
C29_MainWithoutTests ==
    (pc = "done" /\ OneMainNoTest) =>
        /\ result.status = "Ok"
        /\ IsSome(result.main)
        /\ result.environment.full = file_contents(file)
        /\ result.environment.mainless
             = Rebuild(file_contents(file),
                       {<<FuncStart(file, FirstMain),
                          body_range(file, FirstMain)[2], TRUE>>}, 0)

(***************************************************************************)
(* Claims about the comments of the functions that do not qualify.         *)
(***************************************************************************)
\* filter stands on the body of a function that is neither `main` nor a
\* test: any other name, or the prefix alone
AtUnqualifiedBody == pc = "walk" /\ phase = "body" /\ ~Qualifies(idx)

\* a function that does not qualify under a comment that cannot be sliced
\* or parsed
BadUnqualified(i) ==
    /\ IsDef(i)
    /\ ~Qualifies(i)
    /\ file.decls[i].comment \in {"badslice", "badconfig"}

\* C30: the comment is sliced and parsed for qualifying functions only
\* (`main` and prefixed names with a suffix): on a function of any other
\* name, or named by the prefix alone, whatever its comment, filter sets
\* no Error and the traversal goes on; a visit fails over a comment only
\* when a qualifying function has a bad one, and otherwise every test of
\* the file is returned.
C30_UnqualifiedComment ==
    /\ [][AtUnqualifiedBody =>
            /\ ERROR' = ERROR
            /\ idx' = idx + 1
            /\ pc' \in {"walk", "walked"}
            /\ pc' = "walked" => idx = Len(file.decls)]_vars
    /\ [](pc = "done" /\ ~HasErr /\ TestDefs # {} /\ file.readable =>
            /\ result.status = "Ok"
            /\ Len(result.tests) = Cardinality(TestDefs))

\* a visit that succeeded with a test found behind a prefix-only function
\* and behind a function of another name, both under bad comments
C30_Witness ==
    /\ pc = "done"
    /\ result.status = "Ok"
    /\ \E i, j, k \in DeclIdx :
           /\ i < k /\ j < k
           /\ BadUnqualified(i) /\ IsPrefixOnlyDef(i)
           /\ BadUnqualified(j) /\ IsOtherDef(j)
           /\ IsTestDef(k)
           /\ Len(result.tests) >= 1

====
